---- MODULE Spec2Model ----
(***************************************************************************)
(* Model of the composable query builder (Select, Where, WhereBuilder,     *)
(* Join, TableType) and of its rendering (Select::parts, into_builder).    *)
(*                                                                         *)
(* Text is a sequence of tokens.  The token "?" is the placeholder         *)
(* character, the token " " is one space; every other token is a piece of  *)
(* literal text that contains neither.  split('?'), trim() and the         *)
(* placeholder count act on the tokens as the code acts on characters.     *)
(***************************************************************************)
EXTENDS Integers, Sequences, FiniteSets, TLC

VARIABLES sel, held, wh, wb, res, out

vars == <<sel, held, wh, wb, res, out>>

----------------------------------------------------------------------------
(* Bounds of the exploration                                               *)

MaxItems == 3
MaxHeld == 1
MaxDepth == 1
MaxExpr == 2

----------------------------------------------------------------------------
(* Text helpers                                                            *)

Q == "?"
SP == " "

\* number of `?` characters of s
CountQ(s) == Cardinality({i \in 1..Len(s) : s[i] = Q})

\* a split on `?` that leaves out the empty segments
RECURSIVE SplitQNonEmpty(_)
SplitQNonEmpty(s) ==
    IF \A i \in 1..Len(s) : s[i] # Q
    THEN IF s = <<>> THEN <<>> ELSE <<s>>
    ELSE LET i == CHOOSE k \in 1..Len(s) :
                      s[k] = Q /\ \A j \in 1..(k - 1) : s[j] # Q
             first == IF i = 1 THEN <<>> ELSE <<SubSeq(s, 1, i - 1)>>
         IN first \o SplitQNonEmpty(SubSeq(s, i + 1, Len(s)))

\* str::split('?'): the literal segments around the placeholders, always
\* CountQ(s) + 1 of them (an empty text gives one empty segment)
RECURSIVE SplitQ(_)
SplitQ(s) ==
    IF \A i \in 1..Len(s) : s[i] # Q
    THEN <<s>>
    ELSE LET i == CHOOSE k \in 1..Len(s) :
                      s[k] = Q /\ \A j \in 1..(k - 1) : s[j] # Q
         IN <<SubSeq(s, 1, i - 1)>> \o SplitQ(SubSeq(s, i + 1, Len(s)))

\* str::trim(): drops the leading and the trailing spaces
RECURSIVE Trim(_)
Trim(s) ==
    IF s = <<>> THEN s
    ELSE IF Head(s) = SP THEN Trim(Tail(s))
    ELSE IF s[Len(s)] = SP THEN Trim(SubSeq(s, 1, Len(s) - 1))
    ELSE s

\* concatenation of a sequence of texts
RECURSIVE Concat(_)
Concat(ss) == IF ss = <<>> THEN <<>> ELSE Head(ss) \o Concat(Tail(ss))

----------------------------------------------------------------------------
(* SQLValue                                                                *)

I32(n) == [t |-> "I32", v |-> <<n>>]
U64(n) == [t |-> "U64", v |-> <<n>>]
I64(n) == [t |-> "I64", v |-> <<n>>]
VecI64(ns) == [t |-> "VecI64", v |-> ns]
Null == [t |-> "Null", v |-> <<>>]
StrNull == [t |-> "String", v |-> <<>>]

\* SQLValue::push_bind: the value handed to the binder
push_bind(v) ==
    CASE v.t = "U64" -> I64(v.v[1])
      [] v.t = "Null" -> StrNull
      [] OTHER -> v

----------------------------------------------------------------------------
(* Results of fallible calls                                               *)

Ok(x) == [tag |-> "Ok", val |-> x]
IncorrectPlaceholderCount(s, exp) == [tag |-> "Err", tmpl |-> s, exp |-> exp]
Panic(m) == [tag |-> "Panic", msg |-> m]

\* util::placeholder_count with `<` for `!=`
placeholder_count_off(s, exp) ==
    IF CountQ(s) < exp
    THEN IncorrectPlaceholderCount(s, exp)
    ELSE Ok(<<>>)

\* util::placeholder_count
placeholder_count(s, exp) ==
    IF CountQ(s) # exp
    THEN IncorrectPlaceholderCount(s, exp)
    ELSE Ok(<<>>)

----------------------------------------------------------------------------
(* Where fragments and the conversions into them                           *)

And == "and"
Or == "or"

Simple(expr, values, kind) == [expr |-> expr, values |-> values, kind |-> kind]

\* arguments of the tuple conversions: a value (T: Into<SQLValue>), an
\* Option<T>, or a Where
ArgVal(v) == [tag |-> "Val", v |-> v]
ArgNone == [tag |-> "OptNone"]
ArgSome(v) == [tag |-> "OptSome", v |-> v]
ArgWhere(w) == [tag |-> "Where", w |-> w]

\* IntoWhere::into_where wrapping a nested expression in parentheses
into_where_paren(a, acc) ==
    CASE a.tag = "Val" ->
            [expr |-> Append(acc.expr, Q), values |-> Append(acc.values, a.v)]
      [] a.tag = "OptSome" ->
            [expr |-> Append(acc.expr, Q), values |-> Append(acc.values, a.v)]
      [] a.tag = "OptNone" ->
            [expr |-> Append(acc.expr, Q), values |-> Append(acc.values, Null)]
      [] a.tag = "Where" ->
            [expr |-> acc.expr \o <<"(">> \o a.w.expr \o <<")">>,
             values |-> acc.values \o a.w.values]

\* IntoWhere::into_where on the accumulator acc = [expr, values]
into_where(a, acc) ==
    CASE a.tag = "Val" ->
            [expr |-> Append(acc.expr, Q), values |-> Append(acc.values, a.v)]
      [] a.tag = "OptSome" ->
            [expr |-> Append(acc.expr, Q), values |-> Append(acc.values, a.v)]
      [] a.tag = "OptNone" ->
            [expr |-> Append(acc.expr, Q), values |-> Append(acc.values, Null)]
      [] a.tag = "Where" ->
            [expr |-> acc.expr \o a.w.expr, values |-> acc.values \o a.w.values]

\* partial accumulator helpers of the conversions
Push(acc, part) == [acc EXCEPT !.expr = @ \o part]
Acc0 == [expr |-> <<>>, values |-> <<>>]

\* TryFrom<&str> / TryFrom<String> for Where
try_from_str(input_expr) ==
    LET pc == placeholder_count(input_expr, 0)
    IN IF pc.tag = "Err" THEN pc
       ELSE Ok(Simple(input_expr, <<>>, And))

\* TryFrom<(S, V)> for Where keeping the tag of a fragment given as argument
try_from_1_nested_kind(input_expr, v1) ==
    LET pc == placeholder_count(input_expr, 1)
        ps == SplitQ(input_expr)
        a0 == Push(Acc0, ps[1])
        a1 == into_where(v1, a0)
        a2 == IF Len(ps) >= 2 THEN Push(a1, ps[2]) ELSE a1
        kind == IF v1.tag = "Where" THEN v1.w.kind ELSE And
    IN IF pc.tag = "Err" THEN pc
       ELSE IF Len(ps) < 1 THEN Panic("unwrap on None")
       ELSE IF Len(ps) > 2 THEN Panic("assertion failed")
       ELSE Ok(Simple(a2.expr, a2.values, kind))

\* TryFrom<(S, V)> for Where
try_from_1(input_expr, v1) ==
    LET pc == placeholder_count(input_expr, 1)
        ps == SplitQ(input_expr)
        a0 == Push(Acc0, ps[1])
        a1 == into_where(v1, a0)
        a2 == IF Len(ps) >= 2 THEN Push(a1, ps[2]) ELSE a1
    IN IF pc.tag = "Err" THEN pc
       ELSE IF Len(ps) < 1 THEN Panic("unwrap on None")
       ELSE IF Len(ps) > 2 THEN Panic("assertion failed")
       ELSE Ok(Simple(a2.expr, a2.values, And))

\* TryFrom<(S, V1, V2)> for Where
try_from_2(input_expr, v1, v2) ==
    LET pc == placeholder_count(input_expr, 2)
        ps == SplitQ(input_expr)
        a0 == Push(Acc0, ps[1])
        a1 == into_where(v1, a0)
        a2 == into_where(v2, Push(a1, ps[2]))
        a3 == IF Len(ps) >= 3 THEN Push(a2, ps[3]) ELSE a2
    IN IF pc.tag = "Err" THEN pc
       ELSE IF Len(ps) < 2 THEN Panic("unwrap on None")
       ELSE IF Len(ps) > 3 THEN Panic("assertion failed")
       ELSE Ok(Simple(a3.expr, a3.values, And))

\* TryFrom<(S, V1, V2, V3)> for Where
try_from_3(input_expr, v1, v2, v3) ==
    LET pc == placeholder_count(input_expr, 3)
        ps == SplitQ(input_expr)
        a0 == Push(Acc0, ps[1])
        a1 == into_where(v1, a0)
        a2 == into_where(v2, Push(a1, ps[2]))
        a3 == into_where(v3, Push(a2, ps[3]))
        a4 == IF Len(ps) >= 4 THEN Push(a3, ps[4]) ELSE a3
    IN IF pc.tag = "Err" THEN pc
       ELSE IF Len(ps) < 3 THEN Panic("unwrap on None")
       ELSE IF Len(ps) > 4 THEN Panic("assertion failed")
       ELSE Ok(Simple(a4.expr, a4.values, And))

\* the conversion selected by the shape of the argument: a bare string or a
\* tuple of the template and 1 to 3 arguments
try_into_where(input_expr, args) ==
    CASE Len(args) = 0 -> try_from_str(input_expr)
      [] Len(args) = 1 -> try_from_1(input_expr, args[1])
      [] Len(args) = 2 -> try_from_2(input_expr, args[1], args[2])
      [] Len(args) = 3 -> try_from_3(input_expr, args[1], args[2], args[3])

\* Where::kind
Where_kind(w, kind) == [w EXCEPT !.kind = kind]

\* Where::get_kind: the fragment's own tag
get_kind(w) == w.kind

----------------------------------------------------------------------------
(* WhereBuilder                                                            *)

\* WhereBuilder::new
WhereBuilder_new == [expr |-> <<>>, values |-> <<>>, count |-> 0, kind |-> And]

\* the shared body without the fragment's values
WhereBuilder_add_no_values(b, keyword, input_expr, args) ==
    LET e1 == IF b.count > 0 THEN b.expr \o <<SP, keyword, SP>> ELSE b.expr
        r == try_into_where(input_expr, args)
    IN IF r.tag # "Ok" THEN r
       ELSE Ok([b EXCEPT !.expr = e1 \o r.val.expr, !.count = @ + 1])

\* the body shared by WhereBuilder::where_ and WhereBuilder::or_where: the
\* keyword is pushed first, then the conversion runs and the fragment is
\* spliced; on an error the builder (moved into the call) is gone
WhereBuilder_add(b, keyword, input_expr, args) ==
    LET e1 == IF b.count > 0 THEN b.expr \o <<SP, keyword, SP>> ELSE b.expr
        r == try_into_where(input_expr, args)
        a == into_where(ArgWhere(r.val), [expr |-> e1, values |-> b.values])
    IN IF r.tag # "Ok" THEN r
       ELSE Ok([b EXCEPT !.expr = a.expr, !.values = a.values,
                         !.count = @ + 1])

\* WhereBuilder::where_
WhereBuilder_where_(b, input_expr, args) ==
    WhereBuilder_add(b, And, input_expr, args)

\* WhereBuilder::or_where pushing the keyword of where_
WhereBuilder_or_where_and(b, input_expr, args) ==
    WhereBuilder_add(b, And, input_expr, args)

\* WhereBuilder::or_where
WhereBuilder_or_where(b, input_expr, args) ==
    WhereBuilder_add(b, Or, input_expr, args)

\* WhereBuilder::kind
WhereBuilder_kind(b, kind) == [b EXCEPT !.kind = kind]

\* WhereBuilder::build
WhereBuilder_build(b) == Simple(b.expr, b.values, b.kind)

----------------------------------------------------------------------------
(* TableType, Join, Select                                                 *)

None == [tag |-> "None"]
Some(x) == [tag |-> "Some", val |-> x]

\* TableType::Simple, TableType::Complex (From<&str>, From<(&str, Select)>,
\* From<(&str, Select, Select)>: no check of the template)
TableSimple(s) == [tag |-> "Simple", s |-> s]
TableComplex(s, v) == [tag |-> "Complex", s |-> s, v |-> v]

Left == "left"

\* TryFrom<&str> / TryFrom<String> for Join
join_try_from_str(value) == Ok([tag |-> "Simple", s |-> value])

\* TryFrom<(T, Select)> for Join without the placeholder_count call
join_try_from_sub_unchecked(expr, select) ==
    Ok([tag |-> "SubQuery", s |-> expr, select |-> select])

\* TryFrom<(T, Select)> for Join
join_try_from_sub(expr, select) ==
    LET pc == placeholder_count(expr, 1)
    IN IF pc.tag = "Err" THEN pc
       ELSE Ok([tag |-> "SubQuery", s |-> expr, select |-> select])

\* Select::new
Select_new ==
    [table |-> None, select |-> <<>>, join |-> <<>>, where_ |-> <<>>,
     order_by |-> None, group_by |-> None, limit |-> None, offset |-> None]

\* Select::table
table(s, t) == [s EXCEPT !.table = Some(t)]

\* Select::from
from(t) == table(Select_new, t)

\* Select::union
union(a, b, alias) ==
    from(TableComplex(<<"(", "(", Q, ")", SP, "union", SP, "(", Q, ")", ")",
                        SP, "as", SP>> \o alias, <<a, b>>))

\* Select::left_join; j is the result of the conversion into Join
left_join(s, j) ==
    IF j.tag # "Ok" THEN j
    ELSE Ok([s EXCEPT !.join = Append(@, [kind |-> Left, join |-> j.val])])

\* Select::where_; r is the result of the conversion into Where
where_(s, r) ==
    IF r.tag # "Ok" THEN r
    ELSE Ok([s EXCEPT !.where_ = Append(@, r.val)])

\* Select::where_if calling and converting the callback's value first
where_if_eager(s, cond, input_expr, args) ==
    LET r == try_into_where(input_expr, args)
    IN IF r.tag # "Ok" THEN r
       ELSE IF cond THEN Ok([s EXCEPT !.where_ = Append(@, r.val)])
       ELSE Ok(s)

\* Select::where_if; the callback is called and its value converted only
\* when cond holds
where_if(s, cond, input_expr, args) ==
    IF cond
    THEN LET r == try_into_where(input_expr, args)
         IN IF r.tag # "Ok" THEN r
            ELSE Ok([s EXCEPT !.where_ = Append(@, r.val)])
    ELSE Ok(s)

\* Select::where_in
where_in(s, col, values) ==
    [s EXCEPT !.where_ =
        Append(@, Simple(col \o <<SP, "=", SP, "ANY(", Q, ")">>,
                         <<VecI64(values)>>, And))]

\* Select::or_where
or_where(s, r) ==
    IF r.tag # "Ok" THEN r
    ELSE Ok([s EXCEPT !.where_ = Append(@, Where_kind(r.val, Or))])

\* Select::select; column is the list IntoSelect::into_select returns
select(s, column) == [s EXCEPT !.select = @ \o column]

\* Select::group_by; g is the text IntoGroupBy::into_group_by returns
group_by(s, g) == [s EXCEPT !.group_by = Some(g)]

\* Select::order_by
order_by(s, col, dir) == [s EXCEPT !.order_by = Some([col |-> col, dir |-> dir])]

\* Select::limit that leaves a set value when given None
limit_unless_none(s, l) == IF l.tag = "None" THEN s ELSE [s EXCEPT !.limit = l]

\* Select::limit, Select::take; l is IntoOptional::into_optional's result
limit(s, l) == [s EXCEPT !.limit = l]
take(s, l) == limit(s, l)

\* Select::offset, Select::skip
offset(s, o) == [s EXCEPT !.offset = o]
skip(s, o) == offset(s, o)

----------------------------------------------------------------------------
(* Rendering: Select::parts                                                *)

NoTable == "No table specified"

\* BoolKind::as_str, JoinKind::as_str and OrderDir::as_str give the tag's
\* own word; the tags are modelled by these words
Asc == "asc"
Desc == "desc"

\* the column list with `, ` after every column, the last one included
RECURSIVE ColumnsTrailing(_)
ColumnsTrailing(cols) ==
    IF cols = <<>> THEN <<"*">>
    ELSE IF Len(cols) = 1 THEN cols[1] \o <<",", SP>>
    ELSE cols[1] \o <<",", SP>> \o ColumnsTrailing(Tail(cols))

\* the column list: `*` when empty, else the columns separated by `, `
RECURSIVE Columns(_)
Columns(cols) ==
    IF cols = <<>> THEN <<"*">>
    ELSE IF Len(cols) = 1 THEN cols[1]
    ELSE cols[1] \o <<",", SP>> \o Columns(Tail(cols))

\* the predicates with ` kind ` of the fragment itself after each expression
WhereLoopOwnKind(ws, index) ==
    LET RECURSIVE Go(_)
        Go(i) ==
            IF i > Len(ws) THEN [q |-> <<>>, vals |-> <<>>]
            ELSE LET rest == Go(i + 1)
                     sep == IF i # Len(ws)
                            THEN <<SP, get_kind(ws[i]), SP>>
                            ELSE <<SP>>
                 IN [q |-> ws[i].expr \o sep \o rest.q,
                     vals |-> ws[i].values \o rest.vals]
    IN Go(index)

\* the predicates: each expression, then ` kind ` of the NEXT fragment, or
\* one space after the last one
WhereLoop(ws, index) ==
    LET RECURSIVE Go(_)
        Go(i) ==
            IF i > Len(ws) THEN [q |-> <<>>, vals |-> <<>>]
            ELSE LET rest == Go(i + 1)
                     sep == IF i # Len(ws)
                            THEN <<SP, get_kind(ws[i + 1]), SP>>
                            ELSE <<SP>>
                 IN [q |-> ws[i].expr \o sep \o rest.q,
                     vals |-> ws[i].values \o rest.vals]
    IN Go(index)

RECURSIVE parts(_)

\* the loop with each nested rendering trimmed, as the join loop does
RECURSIVE ComplexLoopTrimmed(_, _, _)
ComplexLoopTrimmed(v, ps, i) ==
    IF i > Len(v) THEN Ok([q |-> <<>>, vals |-> <<>>])
    ELSE LET sub == parts(v[i])
             part == IF i + 1 <= Len(ps) THEN ps[i + 1] ELSE <<>>
             rest == ComplexLoopTrimmed(v, ps, i + 1)
         IN IF sub.tag # "Ok" THEN sub
            ELSE IF rest.tag # "Ok" THEN rest
            ELSE Ok([q |-> Trim(sub.val.q) \o part \o rest.val.q,
                     vals |-> sub.val.vals \o rest.val.vals])

\* the `for select in v.iter()` loop of the Complex source: the rendering of
\* each nested statement, then the next segment of the template if there is
\* one; a nested statement without a table panics
RECURSIVE ComplexLoop(_, _, _)
ComplexLoop(v, ps, i) ==
    IF i > Len(v) THEN Ok([q |-> <<>>, vals |-> <<>>])
    ELSE LET sub == parts(v[i])
             part == IF i + 1 <= Len(ps) THEN ps[i + 1] ELSE <<>>
             rest == ComplexLoop(v, ps, i + 1)
         IN IF sub.tag # "Ok" THEN sub
            ELSE IF rest.tag # "Ok" THEN rest
            ELSE Ok([q |-> sub.val.q \o part \o rest.val.q,
                     vals |-> sub.val.vals \o rest.val.vals])

\* the source when a missing table is let through
SourceOptional(t) ==
    CASE t.tag = "None" -> Ok([q |-> <<>>, vals |-> <<>>])
      [] t.val.tag = "Simple" -> Ok([q |-> t.val.s, vals |-> <<>>])
      [] t.val.tag = "Complex" ->
            LET ps == SplitQ(t.val.s)
                loop == ComplexLoop(t.val.v, ps, 1)
                left == Concat(SubSeq(ps, Len(t.val.v) + 2, Len(ps)))
            IN IF loop.tag # "Ok" THEN loop
               ELSE Ok([q |-> ps[1] \o loop.val.q \o left,
                        vals |-> loop.val.vals])

\* the source: the simple name, or the template's first segment, the loop
\* over the nested statements, and the segments left over (`for part in
\* parts`); no source panics
Source(t) ==
    CASE t.tag = "None" -> Panic(NoTable)
      [] t.val.tag = "Simple" -> Ok([q |-> t.val.s, vals |-> <<>>])
      [] t.val.tag = "Complex" ->
            LET ps == SplitQ(t.val.s)
                loop == ComplexLoop(t.val.v, ps, 1)
                left == Concat(SubSeq(ps, Len(t.val.v) + 2, Len(ps)))
            IN IF loop.tag # "Ok" THEN loop
               ELSE Ok([q |-> ps[1] \o loop.val.q \o left,
                        vals |-> loop.val.vals])

\* the join loop with the nested rendering pushed untrimmed
RECURSIVE JoinLoopUntrimmed(_, _)
JoinLoopUntrimmed(js, i) ==
    IF i > Len(js) THEN Ok([q |-> <<>>, vals |-> <<>>])
    ELSE LET j == js[i].join
             head == <<SP, js[i].kind, SP, "join", SP>>
             rest == JoinLoopUntrimmed(js, i + 1)
         IN IF j.tag = "Simple"
            THEN IF rest.tag # "Ok" THEN rest
                 ELSE Ok([q |-> head \o j.s \o rest.val.q,
                          vals |-> rest.val.vals])
            ELSE LET sub == parts(j.select)
                     ps == SplitQ(j.s)
                     part == IF Len(ps) >= 2 THEN ps[2] ELSE <<>>
                 IN IF sub.tag # "Ok" THEN sub
                    ELSE IF rest.tag # "Ok" THEN rest
                    ELSE Ok([q |-> head \o ps[1] \o sub.val.q \o part
                                   \o rest.val.q,
                             vals |-> sub.val.vals \o rest.val.vals])

\* the `for (kind, join) in self.join` loop
RECURSIVE JoinLoop(_, _)
JoinLoop(js, i) ==
    IF i > Len(js) THEN Ok([q |-> <<>>, vals |-> <<>>])
    ELSE LET j == js[i].join
             head == <<SP, js[i].kind, SP, "join", SP>>
             rest == JoinLoop(js, i + 1)
         IN IF j.tag = "Simple"
            THEN IF rest.tag # "Ok" THEN rest
                 ELSE Ok([q |-> head \o j.s \o rest.val.q,
                          vals |-> rest.val.vals])
            ELSE LET sub == parts(j.select)
                     ps == SplitQ(j.s)
                     part == IF Len(ps) >= 2 THEN ps[2] ELSE <<>>
                 IN IF sub.tag # "Ok" THEN sub
                    ELSE IF Len(ps) < 1 THEN Panic("unwrap on None")
                    ELSE IF rest.tag # "Ok" THEN rest
                    ELSE Ok([q |-> head \o ps[1] \o Trim(sub.val.q) \o part
                                   \o rest.val.q,
                             vals |-> sub.val.vals \o rest.val.vals])

\* the limit and offset clauses written offset first
LimitOffsetSwapped(s) ==
    LET lq == IF s.limit.tag = "Some" THEN <<SP, "limit", SP, Q>> ELSE <<>>
        lv == IF s.limit.tag = "Some" THEN <<U64(s.limit.val)>> ELSE <<>>
        fq == IF s.offset.tag = "Some" THEN <<SP, "offset", SP, Q>> ELSE <<>>
        fv == IF s.offset.tag = "Some" THEN <<U64(s.offset.val)>> ELSE <<>>
    IN [q |-> fq \o lq, vals |-> fv \o lv]

\* the limit and offset clauses of Select::parts
LimitOffset(s) ==
    LET lq == IF s.limit.tag = "Some" THEN <<SP, "limit", SP, Q>> ELSE <<>>
        lv == IF s.limit.tag = "Some" THEN <<U64(s.limit.val)>> ELSE <<>>
        fq == IF s.offset.tag = "Some" THEN <<SP, "offset", SP, Q>> ELSE <<>>
        fv == IF s.offset.tag = "Some" THEN <<U64(s.offset.val)>> ELSE <<>>
    IN [q |-> lq \o fq, vals |-> lv \o fv]

\* Select::parts with the limit value gathered first
parts_limit_first(s) ==
    LET cols == <<"select", SP>> \o Columns(s.select)
        src == Source(s.table)
        joins == JoinLoop(s.join, 1)
        wl == WhereLoop(s.where_, 1)
        wq == IF s.where_ # <<>> THEN <<SP, "where", SP>> \o wl.q ELSE <<>>
        gq == IF s.group_by.tag = "Some"
              THEN <<SP, "group", SP, "by", SP>> \o s.group_by.val \o <<SP>>
              ELSE <<>>
        oq == IF s.order_by.tag = "Some"
              THEN <<SP, "order", SP, "by", SP>> \o s.order_by.val.col
                   \o <<SP, s.order_by.val.dir, SP>>
              ELSE <<>>
        lq == IF s.limit.tag = "Some" THEN <<SP, "limit", SP, Q>> ELSE <<>>
        lv == IF s.limit.tag = "Some" THEN <<U64(s.limit.val)>> ELSE <<>>
        fq == IF s.offset.tag = "Some" THEN <<SP, "offset", SP, Q>> ELSE <<>>
        fv == IF s.offset.tag = "Some" THEN <<U64(s.offset.val)>> ELSE <<>>
    IN IF src.tag # "Ok" THEN src
       ELSE IF joins.tag # "Ok" THEN joins
       ELSE Ok([q |-> cols \o <<SP, "from", SP>> \o src.val.q \o joins.val.q
                      \o wq \o gq \o oq \o lq \o fq,
                vals |-> lv \o src.val.vals \o joins.val.vals \o wl.vals
                         \o fv])

\* Select::parts
parts(s) ==
    LET cols == <<"select", SP>> \o Columns(s.select)
        src == Source(s.table)
        joins == JoinLoop(s.join, 1)
        wl == WhereLoop(s.where_, 1)
        wq == IF s.where_ # <<>> THEN <<SP, "where", SP>> \o wl.q ELSE <<>>
        gq == IF s.group_by.tag = "Some"
              THEN <<SP, "group", SP, "by", SP>> \o s.group_by.val \o <<SP>>
              ELSE <<>>
        oq == IF s.order_by.tag = "Some"
              THEN <<SP, "order", SP, "by", SP>> \o s.order_by.val.col
                   \o <<SP, s.order_by.val.dir, SP>>
              ELSE <<>>
        lo == LimitOffset(s)
    IN IF src.tag # "Ok" THEN src
       ELSE IF joins.tag # "Ok" THEN joins
       ELSE Ok([q |-> cols \o <<SP, "from", SP>> \o src.val.q \o joins.val.q
                      \o wq \o gq \o oq \o lo.q,
                vals |-> src.val.vals \o joins.val.vals \o wl.vals
                         \o lo.vals])

----------------------------------------------------------------------------
(* Binding: Select::into_builder                                           *)

\* the assertion asking only for a segment per value
assert_enough_parts(query_parts, placeholders) ==
    Len(query_parts) >= placeholders

\* assert_query_part_and_placeholder_lengths_correct
assert_query_part_and_placeholder_lengths_correct(query_parts, placeholders) ==
    \/ Len(query_parts) = placeholders + 1
    \/ Len(query_parts) = placeholders

\* zip_longest over the segments and the values: Both pushes the segment and
\* binds, Left pushes the segment, Right binds; the binder writes `$n` for
\* its n-th bind
RECURSIVE ZipLongest(_, _, _)
ZipLongest(ps, v, i) ==
    IF i > Len(ps) /\ i > Len(v) THEN <<>>
    ELSE (IF i <= Len(ps) THEN ps[i] ELSE <<>>)
         \o (IF i <= Len(v) THEN <<"$" \o ToString(i)>> ELSE <<>>)
         \o ZipLongest(ps, v, i + 1)

\* Select::into_builder
into_builder(s) ==
    LET r == parts(s)
        ps == SplitQ(r.val.q)
        v == r.val.vals
    IN IF r.tag # "Ok" THEN r
       ELSE IF ~assert_query_part_and_placeholder_lengths_correct(ps, Len(v))
       THEN Panic("Query part count and placeholder count mismatch")
       ELSE Ok([sql |-> ZipLongest(ps, v, 1),
                binds |-> [k \in 1..Len(v) |-> push_bind(v[k])]])

----------------------------------------------------------------------------
(* The caller: one statement under construction (sel), one statement set   *)
(* aside to be embedded (held), one predicate fragment set aside (wh), one *)
(* WhereBuilder (wb), the outcome of the last call (res) and the record of *)
(* the rendering call (out).  A value moved into a call is Gone.           *)

Gone == [tag |-> "Gone"]
Returned == [tag |-> "Ok"]
NoOut == [tag |-> "NoOut"]

\* the record of a call: the template and the arguments it was given (none
\* for a call that takes no template) and what it returned
Call(op, tmpl, args, r) ==
    [op |-> op, tmpl |-> tmpl, args |-> args, n |-> Len(args),
     r |-> IF r.tag = "Ok" THEN Returned ELSE r]

Done == Call("call", <<>>, <<>>, Returned)

\* number of entries a statement holds, nested statements included
RECURSIVE Items(_)
Items(s) ==
    IF s = Gone THEN 0
    ELSE LET RECURSIVE SumSubs(_)
             SumSubs(v) == IF v = <<>> THEN 0
                           ELSE Items(Head(v)) + SumSubs(Tail(v))
             RECURSIVE SumJoins(_)
             SumJoins(js) ==
                 IF js = <<>> THEN 0
                 ELSE (IF Head(js).join.tag = "SubQuery"
                       THEN 1 + Items(Head(js).join.select) ELSE 1)
                      + SumJoins(Tail(js))
         IN Len(s.select) + Len(s.where_) + SumJoins(s.join)
            + (IF s.table.tag = "Some" /\ s.table.val.tag = "Complex"
               THEN 1 + SumSubs(s.table.val.v) ELSE 0)
            + (IF s.group_by.tag = "Some" THEN 1 ELSE 0)
            + (IF s.order_by.tag = "Some" THEN 1 ELSE 0)
            + (IF s.limit.tag = "Some" THEN 1 ELSE 0)
            + (IF s.offset.tag = "Some" THEN 1 ELSE 0)

\* nesting depth of a statement
RECURSIVE Depth(_)
Depth(s) ==
    IF s = Gone THEN 0
    ELSE LET RECURSIVE MaxSubs(_)
             MaxSubs(v) == IF v = <<>> THEN 0
                           ELSE LET a == 1 + Depth(Head(v))
                                    b == MaxSubs(Tail(v))
                                IN IF a > b THEN a ELSE b
             RECURSIVE MaxJoinSubs(_)
             MaxJoinSubs(js) ==
                 IF js = <<>> THEN 0
                 ELSE LET a == IF Head(js).join.tag = "SubQuery"
                               THEN 1 + Depth(Head(js).join.select) ELSE 0
                          b == MaxJoinSubs(Tail(js))
                      IN IF a > b THEN a ELSE b
             t == IF s.table.tag = "Some" /\ s.table.val.tag = "Complex"
                  THEN MaxSubs(s.table.val.v) ELSE 0
             j == MaxJoinSubs(s.join)
         IN IF t > j THEN t ELSE j

\* what the caller holds, against the bound of the exploration
Load == Items(sel) + Items(held)
        + (IF wh = Gone THEN 0 ELSE 1)
        + (IF wb = Gone THEN 0 ELSE 1 + wb.count)

Fits == /\ Load <= MaxItems
        /\ Depth(sel) <= MaxDepth

Init ==
    /\ sel = Select_new
    /\ held = Gone
    /\ wh = Gone
    /\ wb = Gone
    /\ res = Done
    /\ out = NoOut

\* the caller goes on until a call fails (every fallible call is followed by
\* `?`) or the statement is rendered
Running == res.r.tag = "Ok" /\ out = NoOut

Building == Running /\ sel # Gone

\* a call that returns Result<Select>: the statement on Ok, nothing on Err
\* (the statement was moved into the call)
Outcome(op, tmpl, args, r) ==
    /\ sel' = IF r.tag = "Ok" THEN r.val ELSE Gone
    /\ res' = Call(op, tmpl, args, r)

\* the caller sets the statement aside and starts a new one
Hold ==
    /\ Building /\ held = Gone
    /\ Items(sel) <= MaxHeld
    /\ held' = sel
    /\ sel' = Select_new
    /\ res' = Done
    /\ UNCHANGED <<wh, wb, out>>

\* sel.table(name)
Table(name) ==
    /\ Building
    /\ sel' = table(sel, TableSimple(name))
    /\ res' = Done
    /\ UNCHANGED <<held, wh, wb, out>>

\* sel.table((tmpl, held))
TableSub(tmpl) ==
    /\ Building /\ held # Gone
    /\ sel' = table(sel, TableComplex(tmpl, <<held>>))
    /\ held' = Gone
    /\ res' = Done
    /\ UNCHANGED <<wh, wb, out>>

\* Select::from((tmpl, sel))
From1(tmpl) ==
    /\ Building
    /\ sel' = from(TableComplex(tmpl, <<sel>>))
    /\ res' = Done
    /\ UNCHANGED <<held, wh, wb, out>>

\* Select::from((tmpl, held, sel))
From2(tmpl) ==
    /\ Building /\ held # Gone
    /\ sel' = from(TableComplex(tmpl, <<held, sel>>))
    /\ held' = Gone
    /\ res' = Done
    /\ UNCHANGED <<wh, wb, out>>

\* Select::union(held, sel, alias)
Union(alias) ==
    /\ Building /\ held # Gone
    /\ sel' = union(held, sel, alias)
    /\ held' = Gone
    /\ res' = Done
    /\ UNCHANGED <<wh, wb, out>>

\* sel.left_join(clause)
LeftJoin(clause) ==
    /\ Building
    /\ Outcome("left_join", clause, <<>>,
               left_join(sel, join_try_from_str(clause)))
    /\ UNCHANGED <<held, wh, wb, out>>

\* sel.left_join((tmpl, held))
LeftJoinSub(tmpl) ==
    /\ Building /\ held # Gone
    /\ Outcome("left_join", tmpl, <<held>>,
               left_join(sel, join_try_from_sub(tmpl, held)))
    /\ held' = Gone
    /\ UNCHANGED <<wh, wb, out>>

\* the arguments a caller passes with a template: values, options and the
\* fragment set aside
AndArgs == {ArgSome(I32(2))}
OrArgs == {ArgNone}

NestArgs ==
    IF wh # Gone /\ Len(wh.expr) <= MaxExpr THEN {ArgWhere(wh)} ELSE {}

ArgChoices == {ArgVal(I32(1)), ArgNone} \cup NestArgs

WbArgs == {ArgVal(I32(1))} \cup NestArgs

ArgTuples(choices, n) == UNION {[1..k -> choices] : k \in 0..n}

UsesWh(args) == \E i \in 1..Len(args) : args[i].tag = "Where"

\* sel.where_(tmpl) / sel.where_((tmpl, args...))
Where_(tmpl, args) ==
    /\ Building
    /\ Outcome("where_", tmpl, args,
               where_(sel, try_into_where(tmpl, args)))
    /\ wh' = IF UsesWh(args) THEN Gone ELSE wh
    /\ UNCHANGED <<held, wb, out>>

\* sel.or_where(tmpl) / sel.or_where((tmpl, args...))
OrWhere(tmpl, args) ==
    /\ Building
    /\ Outcome("or_where", tmpl, args,
               or_where(sel, try_into_where(tmpl, args)))
    /\ wh' = IF UsesWh(args) THEN Gone ELSE wh
    /\ UNCHANGED <<held, wb, out>>

\* sel.where_if(cond, || (tmpl, args...))
WhereIf(cond, tmpl, args) ==
    /\ Building
    /\ Outcome(IF cond THEN "where_if" ELSE "where_if(false)", tmpl, args,
               where_if(sel, cond, tmpl, args))
    /\ wh' = IF cond /\ UsesWh(args) THEN Gone ELSE wh
    /\ UNCHANGED <<held, wb, out>>

\* sel.where_in(col, values)
WhereIn(col, values) ==
    /\ Building
    /\ sel' = where_in(sel, col, values)
    /\ res' = Call("where_in", <<>>, <<>>, Returned)
    /\ UNCHANGED <<held, wh, wb, out>>

\* sel.select(column)
SelectCols(column) ==
    /\ Building
    /\ sel' = select(sel, column)
    /\ res' = Done
    /\ UNCHANGED <<held, wh, wb, out>>

\* sel.group_by(g)
GroupBy(g) ==
    /\ Building
    /\ sel' = group_by(sel, g)
    /\ res' = Done
    /\ UNCHANGED <<held, wh, wb, out>>

\* sel.order_by(col, dir)
OrderBy(col, dir) ==
    /\ Building
    /\ sel' = order_by(sel, col, dir)
    /\ res' = Done
    /\ UNCHANGED <<held, wh, wb, out>>

\* sel.limit(l)
Limit(l) ==
    /\ Building
    /\ sel' = limit(sel, l)
    /\ res' = Done
    /\ UNCHANGED <<held, wh, wb, out>>

\* sel.take(l)
Take(l) ==
    /\ Building
    /\ sel' = take(sel, l)
    /\ res' = Done
    /\ UNCHANGED <<held, wh, wb, out>>

\* sel.offset(o)
Offset(o) ==
    /\ Building
    /\ sel' = offset(sel, o)
    /\ res' = Done
    /\ UNCHANGED <<held, wh, wb, out>>

\* sel.skip(o)
Skip(o) ==
    /\ Building
    /\ sel' = skip(sel, o)
    /\ res' = Done
    /\ UNCHANGED <<held, wh, wb, out>>

\* let w: Where = tmpl.try_into() / (tmpl, args...).try_into()
Conv(tmpl, args) ==
    /\ Running
    /\ LET r == try_into_where(tmpl, args)
       IN /\ wh' = IF r.tag = "Ok" THEN r.val ELSE Gone
          /\ res' = Call("try_into", tmpl, args, r)
    /\ UNCHANGED <<sel, held, wb, out>>

\* wh.kind(kind)
WhKind(kind) ==
    /\ Running /\ wh # Gone
    /\ wh' = Where_kind(wh, kind)
    /\ res' = Done
    /\ UNCHANGED <<sel, held, wb, out>>

\* WhereBuilder::new()
WbNew ==
    /\ Running /\ wb = Gone
    /\ wb' = WhereBuilder_new
    /\ res' = Done
    /\ UNCHANGED <<sel, held, wh, out>>

\* a call that returns Result<WhereBuilder>
WbOutcome(op, tmpl, args, r) ==
    /\ wb' = IF r.tag = "Ok" THEN r.val ELSE Gone
    /\ res' = Call(op, tmpl, args, r)

\* wb.where_(tmpl) / wb.where_((tmpl, args...))
WbWhere(tmpl, args) ==
    /\ Running /\ wb # Gone
    /\ WbOutcome("wb_where_", tmpl, args,
                 WhereBuilder_where_(wb, tmpl, args))
    /\ wh' = IF UsesWh(args) THEN Gone ELSE wh
    /\ UNCHANGED <<sel, held, out>>

\* wb.or_where(tmpl) / wb.or_where((tmpl, args...))
WbOrWhere(tmpl, args) ==
    /\ Running /\ wb # Gone
    /\ WbOutcome("wb_or_where", tmpl, args,
                 WhereBuilder_or_where(wb, tmpl, args))
    /\ wh' = IF UsesWh(args) THEN Gone ELSE wh
    /\ UNCHANGED <<sel, held, out>>

\* wb.kind(kind)
WbKind(kind) ==
    /\ Running /\ wb # Gone
    /\ wb' = WhereBuilder_kind(wb, kind)
    /\ res' = Done
    /\ UNCHANGED <<sel, held, wh, out>>

\* let w = wb.build()
WbBuild ==
    /\ Running /\ wb # Gone
    /\ wh' = WhereBuilder_build(wb)
    /\ wb' = Gone
    /\ res' = Done
    /\ UNCHANGED <<sel, held, out>>

\* let w = Where::Simple { expr, values, kind: Default::default() }: the
\* variant and its fields are public, so a caller can write the fragment
\* without any conversion
RawWhere(expr, values) ==
    /\ Running
    /\ wh' = Simple(expr, values, And)
    /\ res' = Done
    /\ UNCHANGED <<sel, held, wb, out>>

\* sel.parts()
PartsCall ==
    /\ Building /\ held = Gone
    /\ out' = [call |-> "parts", of |-> sel, r |-> parts(sel)]
    /\ sel' = Gone
    /\ res' = Done
    /\ UNCHANGED <<held, wh, wb>>

\* sel.into_builder()
IntoBuilderCall ==
    /\ Building /\ held = Gone
    /\ out' = [call |-> "into_builder", of |-> sel, r |-> into_builder(sel)]
    /\ sel' = Gone
    /\ res' = Done
    /\ UNCHANGED <<held, wh, wb>>

----------------------------------------------------------------------------
(* The inputs of the exploration                                           *)

TableNames == {<<"t">>}
SrcTmpls == {<<"x">>, <<"(", Q, ")">>, <<Q, "u", Q>>}
JoinClauses == {<<"j">>, <<"j", Q>>}
JoinTmpls == {<<"(", Q, ")", "s">>, <<"k">>, <<Q, Q>>}
WhereTmpls == {<<"a">>, <<"b", Q>>, <<Q, "c", Q>>, <<"(", Q, ")">>,
               <<Q, Q, "d", Q>>}
ColumnLists == {<< <<"id">> >>, << <<"a">>, <<"b">> >>}
GroupBys == {<<"g">>}
OrderCols == {<<"o">>}
Limits == {None, Some(7)}
Offsets == {None, Some(9)}
InLists == {<<1, 2>>}
Aliases == {<<"al">>}
SmallTmpls == {<<"a">>, <<"b", Q>>}
OrTmpls == {<<"c", Q>>}
MaxArgs == 3

\* flat statements: every operation of Select on one statement, the
\* predicates being built from a template and at most one plain value
Ops ==
    \/ \E n \in TableNames : Table(n)
    \/ \E c \in JoinClauses : LeftJoin(c)
    \/ \E t \in SmallTmpls : \E args \in ArgTuples(AndArgs, 1) : Where_(t, args)
    \/ \E t \in OrTmpls : \E args \in ArgTuples(OrArgs, 1) : OrWhere(t, args)
    \/ \E c \in BOOLEAN : \E t \in SmallTmpls :
          \E args \in ArgTuples(AndArgs, 1) : WhereIf(c, t, args)
    \/ \E c \in OrderCols : \E v \in InLists : WhereIn(c, v)
    \/ \E c \in ColumnLists : SelectCols(c)
    \/ \E g \in GroupBys : GroupBy(g)
    \/ \E c \in OrderCols : \E d \in {Asc, Desc} : OrderBy(c, d)
    \/ \E l \in Limits : Limit(l)
    \/ \E l \in Limits : Take(l)
    \/ \E o \in Offsets : Offset(o)
    \/ \E o \in Offsets : Skip(o)
    \/ PartsCall
    \/ IntoBuilderCall

Next == Ops /\ Fits'

Spec == Init /\ [][Next]_vars

\* nested statements: statements embedded in table sources and in joins,
\* with the clauses that carry values
OpsN ==
    \/ Hold
    \/ \E n \in TableNames : Table(n)
    \/ \E t \in SrcTmpls : TableSub(t)
    \/ \E t \in SrcTmpls : From1(t)
    \/ \E t \in SrcTmpls : From2(t)
    \/ \E a \in Aliases : Union(a)
    \/ \E c \in JoinClauses : LeftJoin(c)
    \/ \E t \in JoinTmpls : LeftJoinSub(t)
    \/ \E t \in SmallTmpls : \E args \in ArgTuples(AndArgs, 1) : Where_(t, args)
    \/ \E t \in OrTmpls : \E args \in ArgTuples(OrArgs, 1) : OrWhere(t, args)
    \/ \E l \in Limits : Limit(l)
    \/ \E o \in Offsets : Offset(o)
    \/ PartsCall
    \/ IntoBuilderCall

NextN == OpsN /\ Fits'

SpecN == Init /\ [][NextN]_vars

\* the caller prepares the fragments before the statement takes one
Preparing == IF sel = Gone THEN FALSE ELSE Running /\ sel.where_ = <<>>

\* predicates: the conversions with up to three arguments, nested
\* fragments, the WhereBuilder, and a statement that takes one predicate
\* once the fragments are finished
OpsW ==
    \/ \E n \in TableNames : Table(n)
    \/ /\ Preparing /\ wb = Gone
       /\ \E t \in WhereTmpls : \E args \in ArgTuples(ArgChoices, MaxArgs) :
             Conv(t, args)
    \/ Preparing /\ \E k \in {And, Or} : WhKind(k)
    \/ Preparing /\ NestArgs # {} /\ WbNew
    \/ Preparing /\ wh = Gone /\ WbNew
    \/ /\ Preparing
       /\ \E t \in SmallTmpls : \E args \in ArgTuples(WbArgs, 1) :
             WbWhere(t, args)
    \/ /\ Preparing
       /\ \E t \in OrTmpls : \E args \in ArgTuples(WbArgs, 1) :
             WbOrWhere(t, args)
    \/ Preparing /\ \E k \in {And, Or} : WbKind(k)
    \/ Preparing /\ wh = Gone /\ WbBuild
    \/ /\ Preparing /\ wb = Gone
       /\ \E t \in WhereTmpls : \E args \in ArgTuples(ArgChoices, MaxArgs) :
             (wh = Gone \/ UsesWh(args)) /\ Where_(t, args)
    \/ /\ Preparing /\ wb = Gone
       /\ \E t \in WhereTmpls : \E args \in ArgTuples(ArgChoices, MaxArgs) :
             (wh = Gone \/ UsesWh(args)) /\ OrWhere(t, args)
    \/ PartsCall
    \/ IntoBuilderCall

NextW == OpsW /\ Fits'

SpecW == Init /\ [][NextW]_vars

\* the same with fragments the caller writes as literals of the public enum
RawExprs == {<<"r">>, <<"r", Q>>}
RawValues == {<<>>, <<I32(1)>>}

OpsRaw ==
    \/ OpsW
    \/ /\ Preparing /\ wb = Gone
       /\ \E e \in RawExprs : \E v \in RawValues : RawWhere(e, v)

NextRaw == OpsRaw /\ Fits'

SpecRaw == Init /\ [][NextRaw]_vars

\* literal pieces that carry `?`: no operation checks them
LitTables == {<<"t">>, <<"t", Q>>}
LitColumns == {<< <<"c", Q>> >>}
LitJoins == {<<"j", Q>>}
LitGroups == {<<"g", Q>>}
LitOrders == {<<"o", Q>>}

OpsL ==
    \/ \E n \in LitTables : Table(n)
    \/ \E c \in LitColumns : SelectCols(c)
    \/ \E c \in LitJoins : LeftJoin(c)
    \/ \E g \in LitGroups : GroupBy(g)
    \/ \E c \in LitOrders : OrderBy(c, Asc)
    \/ \E c \in LitOrders : \E v \in InLists : WhereIn(c, v)
    \/ \E t \in SmallTmpls : \E args \in ArgTuples(AndArgs, 1) : Where_(t, args)
    \/ \E l \in Limits : Limit(l)
    \/ PartsCall
    \/ IntoBuilderCall

NextL == OpsL /\ Fits'

SpecL == Init /\ [][NextL]_vars

\* predicates of up to three arguments and joins onto a held statement: the
\* calls whose conversions and rendering unwrap the segments of a template
OpsU ==
    \/ Hold
    \/ \E n \in TableNames : Table(n)
    \/ \E t \in JoinTmpls : LeftJoinSub(t)
    \/ \E t \in WhereTmpls : \E args \in ArgTuples(AndArgs, MaxArgs) :
          Where_(t, args)
    \/ PartsCall
    \/ IntoBuilderCall

NextU == OpsU /\ Fits'

SpecU == Init /\ [][NextU]_vars

----------------------------------------------------------------------------
(* Properties                                                              *)

Rendered(call) ==
    IF out = NoOut THEN FALSE ELSE out.call = call /\ out.r.tag = "Ok"

\* a value written into the text in place of its slot
ValTok(v) == "#" \o v.t \o ToString(v.v)

\* the template with its k-th `?` from the left replaced by the k-th value
RECURSIVE Fill(_, _)
Fill(q, vals) ==
    IF q = <<>> THEN <<>>
    ELSE IF Head(q) = Q /\ vals # <<>>
    THEN <<ValTok(Head(vals))>> \o Fill(Tail(q), Tail(vals))
    ELSE <<Head(q)>> \o Fill(Tail(q), vals)

\* the statement written out clause by clause with every value in the place
\* of its own slot: nested source statements, joins in insertion order,
\* predicates in insertion order, limit, offset
RECURSIVE Inline(_)
Inline(s) ==
    LET RECURSIVE Cols(_)
        Cols(c) == IF Len(c) = 1 THEN c[1]
                   ELSE Cols(SubSeq(c, 1, Len(c) - 1)) \o <<",", SP>>
                        \o c[Len(c)]
        RECURSIVE Subs(_, _, _)
        Subs(v, segs, n) ==
            IF n = 0 THEN segs[1]
            ELSE Subs(v, segs, n - 1) \o Inline(v[n]) \o segs[n + 1]
        RECURSIVE Joins(_)
        Joins(n) ==
            IF n = 0 THEN <<>>
            ELSE LET j == s.join[n].join
                 IN Joins(n - 1) \o <<SP, "left", SP, "join", SP>>
                    \o (IF j.tag = "Simple" THEN j.s
                        ELSE SplitQ(j.s)[1] \o Trim(Inline(j.select))
                             \o SplitQ(j.s)[2])
        RECURSIVE Preds(_)
        Preds(n) ==
            LET w == s.where_[n]
                e == Fill(w.expr, w.values)
            IN IF n = 1 THEN e
               ELSE Preds(n - 1) \o <<SP, w.kind, SP>> \o e
        t == s.table.val
    IN <<"select", SP>>
       \o (IF s.select = <<>> THEN <<"*">> ELSE Cols(s.select))
       \o <<SP, "from", SP>>
       \o (IF t.tag = "Simple" THEN t.s
           ELSE Subs(t.v, SplitQ(t.s), Len(t.v)))
       \o Joins(Len(s.join))
       \o (IF s.where_ = <<>> THEN <<>>
           ELSE <<SP, "where", SP>> \o Preds(Len(s.where_)) \o <<SP>>)
       \o (IF s.group_by.tag = "None" THEN <<>>
           ELSE <<SP, "group", SP, "by", SP>> \o s.group_by.val \o <<SP>>)
       \o (IF s.order_by.tag = "None" THEN <<>>
           ELSE <<SP, "order", SP, "by", SP>> \o s.order_by.val.col
                \o <<SP, s.order_by.val.dir, SP>>)
       \o (IF s.limit.tag = "None" THEN <<>>
           ELSE <<SP, "limit", SP, ValTok(U64(s.limit.val))>>)
       \o (IF s.offset.tag = "None" THEN <<>>
           ELSE <<SP, "offset", SP, ValTok(U64(s.offset.val))>>)

\* the statement and every statement embedded in it have a source, literal
\* pieces without `?`, and a source template with one `?` per nested
\* statement
RECURSIVE WellFormed(_)
WellFormed(s) ==
    /\ s.table.tag = "Some"
    /\ IF s.table.val.tag = "Simple" THEN CountQ(s.table.val.s) = 0
       ELSE /\ CountQ(s.table.val.s) = Len(s.table.val.v)
            /\ \A i \in 1..Len(s.table.val.v) : WellFormed(s.table.val.v[i])
    /\ \A i \in 1..Len(s.select) : CountQ(s.select[i]) = 0
    /\ \A i \in 1..Len(s.join) :
          IF s.join[i].join.tag = "Simple" THEN CountQ(s.join[i].join.s) = 0
          ELSE WellFormed(s.join[i].join.select)
    /\ s.group_by.tag = "Some" => CountQ(s.group_by.val) = 0
    /\ s.order_by.tag = "Some" => CountQ(s.order_by.val.col) = 0

\* C1: parts() of a statement built by the public operations, with literal
\* pieces free of `?` and one `?` per nested source statement, returns a
\* template with as many `?` as values, and its k-th `?` is the slot of the
\* k-th value: filling the slots in order gives the statement with every
\* value in its own clause, depth-first in clause order
C1_PartsPositionallyCorrect ==
    (out # NoOut /\ out.call = "parts" /\ WellFormed(out.of)) =>
        /\ out.r.tag = "Ok"
        /\ CountQ(out.r.val.q) = Len(out.r.val.vals)
        /\ Fill(out.r.val.q, out.r.val.vals) = Inline(out.of)

C1_Witness ==
    /\ Rendered("parts") /\ WellFormed(out.of)
    /\ out.of.table.val.tag = "Complex"
    /\ Len(out.r.val.vals) = 2
    /\ out.r.val.vals[1] # out.r.val.vals[2]
    /\ out.of.limit.tag = "Some"

\* C2: into_builder completes only on a consistent pair: the statement it
\* emits has as many bind slots as the rendered template has `?`, so no value
\* is bound without a placeholder
C2_BindsOnlyConsistentPairs ==
    Rendered("into_builder") =>
        CountQ(parts(out.of).val.q) = Len(out.r.val.binds)

\* the calls that convert (template, arguments) into a predicate fragment,
\* and what each of them returns into
ConvOps == {"try_into", "where_", "or_where", "wb_where_", "wb_or_where"}

Target(op) ==
    CASE op = "try_into" -> wh
      [] op \in {"where_", "or_where"} -> sel
      [] op \in {"wb_where_", "wb_or_where"} -> wb

\* C3: a conversion of a template with k arguments succeeds iff the template
\* has exactly k `?`; otherwise the call returns IncorrectPlaceholderCount
\* with the template as given and k, and returns no fragment and no builder
C3_ConversionChecksPlaceholderCount ==
    res.op \in ConvOps =>
        /\ (res.r.tag = "Ok") <=> (CountQ(res.tmpl) = res.n)
        /\ res.r.tag = "Ok" => Target(res.op) # Gone
        /\ res.r.tag # "Ok" =>
              /\ res.r = IncorrectPlaceholderCount(res.tmpl, res.n)
              /\ Target(res.op) = Gone

C3_Witness ==
    /\ res.op = "wb_where_"
    /\ res.r = IncorrectPlaceholderCount(res.tmpl, 1)
    /\ CountQ(res.tmpl) = 0
    /\ wb = Gone

\* the template of a multi-statement source has another number of `?` than
\* there are nested statements
Mismatch(s) ==
    /\ s.table.tag = "Some"
    /\ s.table.val.tag = "Complex"
    /\ CountQ(s.table.val.s) # Len(s.table.val.v)

\* C4: a multi-statement source whose template has another number of `?`
\* than nested statements makes rendering fail, never produce a statement
C4_SourceMismatchFailsRendering ==
    (out # NoOut /\ Mismatch(out.of)) => out.r.tag # "Ok"

\* the fragments in order, written from the last one back: before each
\* fragment but the first, the connective of that fragment's own tag between
\* single spaces
RECURSIVE WhereText(_)
WhereText(ws) ==
    IF Len(ws) = 1 THEN ws[1].expr
    ELSE WhereText(SubSeq(ws, 1, Len(ws) - 1))
         \o <<SP, ws[Len(ws)].kind, SP>> \o ws[Len(ws)].expr

\* the statement without its predicates, and without any clause after them
NoWhere(s) == [s EXCEPT !.where_ = <<>>]
UpToJoins(s) ==
    [NoWhere(s) EXCEPT !.group_by = None, !.order_by = None,
                       !.limit = None, !.offset = None]

LastWhere == sel.where_[Len(sel.where_)]

\* C5: the rendered where clause is ` where `, the fragments in order with
\* the connective of fragment i+1's own tag between fragment i and fragment
\* i+1, and one trailing space; the first fragment's tag is not emitted;
\* where_, where_in and where_if add a fragment tagged `and`, or_where one
\* tagged `or`
C5_ConnectiveOfNextFragment ==
    /\ (Rendered("parts") /\ out.of.where_ # <<>>) =>
          LET q == out.r.val.q
              head == parts(UpToJoins(out.of)).val.q
              rest == parts(NoWhere(out.of)).val.q
          IN q = head \o <<SP, "where", SP>> \o WhereText(out.of.where_)
                 \o <<SP>> \o SubSeq(rest, Len(head) + 1, Len(rest))
    /\ (res.op \in {"where_", "where_in", "where_if"} /\ res.r.tag = "Ok") =>
          LastWhere.kind = And
    /\ (res.op = "or_where" /\ res.r.tag = "Ok") => LastWhere.kind = Or

C5_Witness ==
    /\ Rendered("parts")
    /\ Len(out.of.where_) = 3
    /\ out.of.where_[1].kind = Or
    /\ out.of.where_[2].kind = And
    /\ out.of.where_[3].kind = Or

\* the last join of the statement
LastJoin == sel.join[Len(sel.join)]

\* C6: left_join with (template, statement) succeeds iff the template has
\* exactly one `?` and then stores the template as given; otherwise it
\* returns IncorrectPlaceholderCount(template, 1) and no statement; left_join
\* with a string always succeeds and stores the string as the join clause
C6_LeftJoinChecksOnePlaceholder ==
    res.op = "left_join" =>
        IF res.n = 1
        THEN /\ (res.r.tag = "Ok") <=> (CountQ(res.tmpl) = 1)
             /\ res.r.tag # "Ok" =>
                   /\ res.r = IncorrectPlaceholderCount(res.tmpl, 1)
                   /\ sel = Gone
             /\ res.r.tag = "Ok" =>
                   /\ sel # Gone
                   /\ LastJoin.kind = Left
                   /\ LastJoin.join.tag = "SubQuery"
                   /\ LastJoin.join.s = res.tmpl
                   /\ LastJoin.join.select = res.args[1]
        ELSE /\ res.r.tag = "Ok"
             /\ sel # Gone
             /\ LastJoin = [kind |-> Left,
                            join |-> [tag |-> "Simple", s |-> res.tmpl]]

C6_Witness ==
    /\ res.op = "left_join" /\ res.n = 1
    /\ res.r.tag = "Err" /\ CountQ(res.tmpl) = 2

\* the statement, or a statement embedded in its source or in its joins, has
\* no source
RECURSIVE MissingTable(_)
MissingTable(s) ==
    \/ s.table.tag = "None"
    \/ /\ s.table.tag = "Some"
       /\ s.table.val.tag = "Complex"
       /\ \E i \in 1..Len(s.table.val.v) : MissingTable(s.table.val.v[i])
    \/ \E i \in 1..Len(s.join) :
          /\ s.join[i].join.tag = "SubQuery"
          /\ MissingTable(s.join[i].join.select)

\* C7: rendering panics with "No table specified" iff the statement or a
\* statement embedded in it has no source; no operation before rendering
\* panics, and one fails only on a placeholder count
C7_PanicsIffNoTable ==
    /\ out # NoOut => ((out.r = Panic(NoTable)) <=> MissingTable(out.of))
    /\ res.r.tag # "Panic"
    /\ res.r.tag = "Err" => CountQ(res.tmpl) # res.n

C7_Witness ==
    /\ out # NoOut
    /\ out.r = Panic(NoTable)
    /\ out.of.table.tag = "Some"
    /\ out.of.limit.tag = "Some"

\* what an argument puts in the place of its `?`, and the values it brings
Piece(a) == IF a.tag = "Where" THEN a.w.expr ELSE <<Q>>
Brings(a) ==
    CASE a.tag = "Where" -> a.w.values
      [] a.tag = "OptNone" -> <<Null>>
      [] OTHER -> <<a.v>>

\* the template's segments in order with the j-th argument's piece after the
\* j-th segment, and the arguments' values in argument order
RECURSIVE Splice(_, _, _)
Splice(segs, args, n) ==
    IF n = 0 THEN segs[1]
    ELSE Splice(segs, args, n - 1) \o Piece(args[n]) \o segs[n + 1]

RECURSIVE AllBrought(_)
AllBrought(args) ==
    IF args = <<>> THEN <<>>
    ELSE Brings(Head(args)) \o AllBrought(Tail(args))

\* the fragment the last conversion made
Made == IF res.op = "try_into" THEN wh ELSE LastWhere

\* C8: a predicate built from a template with 1-3 arguments has as
\* expression the template's segments with the j-th `?` replaced by one `?`
\* for a plain value (None included, which brings Null) or by the nested
\* fragment's expression as it is, without parentheses, and as values the
\* arguments' values in argument order; the `?` of a nested expression are
\* not consumed by the split of the outer template
C8_SplicesArgumentsInOrder ==
    (res.op \in {"try_into", "where_", "or_where"} /\ res.r.tag = "Ok"
     /\ res.n >= 1) =>
        /\ Len(SplitQ(res.tmpl)) = res.n + 1
        /\ Made.expr = Splice(SplitQ(res.tmpl), res.args, res.n)
        /\ Made.values = AllBrought(res.args)

C8_Witness ==
    /\ res.op = "try_into" /\ res.r.tag = "Ok" /\ res.n = 3
    /\ res.args[1] = ArgNone
    /\ res.args[2].tag = "Where"
    /\ CountQ(res.args[2].w.expr) = 1
    /\ res.args[3].tag = "Val"

\* a fragment carries as many values as its expression has `?`
Balanced(w) == Len(w.values) = CountQ(w.expr)

\* the number of plain arguments, and of values the nested fragments bring
RECURSIVE Scalars(_)
Scalars(args) ==
    IF args = <<>> THEN 0
    ELSE (IF Head(args).tag = "Where" THEN 0 ELSE 1) + Scalars(Tail(args))

RECURSIVE NestedValues(_)
NestedValues(args) ==
    IF args = <<>> THEN 0
    ELSE (IF Head(args).tag = "Where" THEN Len(Head(args).w.values) ELSE 0)
         + NestedValues(Tail(args))

\* C9: every fragment made by the conversions or held by a WhereBuilder (so
\* returned by build()) has as many values as its expression has `?`, which
\* is the number of plain arguments plus the values of the nested
\* fragments; a where clause of such fragments adds as many values to the
\* value list as `?` to the template
C9_FragmentsBalanced ==
    /\ wh # Gone => Balanced(wh)
    /\ wb # Gone => Balanced(wb)
    /\ sel # Gone => \A i \in 1..Len(sel.where_) : Balanced(sel.where_[i])
    /\ (res.op \in {"try_into", "where_", "or_where"} /\ res.r.tag = "Ok") =>
          Len(Made.values) = Scalars(res.args) + NestedValues(res.args)
    /\ (Rendered("parts") /\ out.of.where_ # <<>>) =>
          LET with == out.r.val
              without == parts(NoWhere(out.of)).val
          IN CountQ(with.q) - CountQ(without.q)
               = Len(with.vals) - Len(without.vals)

C9_Witness ==
    /\ Rendered("parts")
    /\ Len(out.of.where_) = 1
    /\ Len(out.of.where_[1].values) = 3
    /\ \E i \in 1..3 : out.of.where_[1].values[i] = Null

\* C10: a source given as a template with n `?` and n nested statements
\* renders as seg0, the first nested rendering, seg1, ..., the n-th nested
\* rendering, segn, each nested rendering whole and untrimmed; the nested
\* statements' values come in statement order before every other value of
\* the outer statement
C10_SourceSplicesNestedStatements ==
    (Rendered("parts") /\ out.of.table.val.tag = "Complex"
     /\ ~Mismatch(out.of)) =>
        LET t == out.of.table.val
            segs == SplitQ(t.s)
            n == Len(t.v)
            sub(i) == parts(t.v[i]).val
            src == IF n = 1 THEN segs[1] \o sub(1).q \o segs[2]
                   ELSE segs[1] \o sub(1).q \o segs[2] \o sub(2).q
                        \o segs[3]
            nested == IF n = 1 THEN sub(1).vals
                      ELSE sub(1).vals \o sub(2).vals
            plain == parts(table(out.of, TableSimple(<<"t">>))).val
            head == <<"select", SP>> \o Columns(out.of.select)
                    \o <<SP, "from", SP>>
        IN /\ n \in {1, 2}
           /\ out.r.val.q = head \o src
                  \o SubSeq(plain.q, Len(head) + 2, Len(plain.q))
           /\ out.r.val.vals = nested \o plain.vals

C10_Witness ==
    /\ Rendered("parts") /\ out.of.table.val.tag = "Complex"
    /\ out.of.table.val.s = <<"(", Q, ")">>
    /\ Len(out.of.table.val.v) = 1
    /\ out.of.table.val.v[1].where_ # <<>>
    /\ Len(out.r.val.vals) = 2
    /\ out.of.offset.tag = "Some"

\* the statement without its joins, and the statement up to its source
NoJoins(s) == [s EXCEPT !.join = <<>>]
UpToSource(s) == NoJoins(UpToJoins(s))

\* the joins in insertion order, written from the last one back: ` left
\* join `, then the literal clause, or the template's first segment, the
\* nested rendering trimmed and the template's second segment
RECURSIVE JoinsText(_)
JoinsText(js) ==
    IF js = <<>> THEN <<>>
    ELSE LET j == js[Len(js)].join
         IN JoinsText(SubSeq(js, 1, Len(js) - 1))
            \o <<SP, "left", SP, "join", SP>>
            \o (IF j.tag = "Simple" THEN j.s
                ELSE SplitQ(j.s)[1] \o Trim(parts(j.select).val.q)
                     \o SplitQ(j.s)[2])

\* the values of the nested statements of the joins, in join order
RECURSIVE JoinsValues(_)
JoinsValues(js) ==
    IF js = <<>> THEN <<>>
    ELSE JoinsValues(SubSeq(js, 1, Len(js) - 1))
         \o (IF js[Len(js)].join.tag = "Simple" THEN <<>>
             ELSE parts(js[Len(js)].join.select).val.vals)

\* C11: the joins are rendered in insertion order between the source and the
\* where clause, each as ` left join ` and the literal clause unchanged, or
\* the template's first segment, the nested rendering trimmed and the
\* template's second segment; the nested values are appended at that point
\* in join order
C11_JoinsInOrderTrimmed ==
    (Rendered("parts") /\ out.of.join # <<>>) =>
        LET src == parts(UpToSource(out.of)).val
            rest == parts(NoJoins(out.of)).val
        IN /\ out.r.val.q = src.q \o JoinsText(out.of.join)
                \o SubSeq(rest.q, Len(src.q) + 1, Len(rest.q))
           /\ out.r.val.vals = src.vals \o JoinsValues(out.of.join)
                \o SubSeq(rest.vals, Len(src.vals) + 1, Len(rest.vals))

C11_Witness ==
    /\ Rendered("parts")
    /\ Len(out.of.join) = 2
    /\ out.of.join[1].join.tag = "SubQuery"
    /\ out.of.join[1].join.select.where_ # <<>>
    /\ Len(out.r.val.vals) = 1
    /\ out.of.join[2].join.tag = "Simple"

\* the fragment a conversion of (template, arguments) makes
Fragment(tmpl, args) ==
    [expr |-> IF args = <<>> THEN tmpl
              ELSE Splice(SplitQ(tmpl), args, Len(args)),
     values |-> AllBrought(args)]

\* one step of a WhereBuilder: a new builder is empty and tagged And; a
\* successful where_ / or_where appends the keyword of the method called
\* (nothing before the first fragment), the fragment's expression and its
\* values; kind changes the tag only; build returns expression, values and
\* tag as they are
WhereBuilderStep ==
    /\ (wb = Gone /\ wb' # Gone) =>
          /\ wb'.expr = <<>> /\ wb'.values = <<>> /\ wb'.kind = And
    /\ (res'.op \in {"wb_where_", "wb_or_where"} /\ res'.r.tag = "Ok") =>
          LET f == Fragment(res'.tmpl, res'.args)
              kw == IF res'.op = "wb_where_" THEN "and" ELSE "or"
          IN /\ wb'.expr = IF wb.count = 0 THEN f.expr
                           ELSE wb.expr \o <<SP, kw, SP>> \o f.expr
             /\ wb'.values = wb.values \o f.values
             /\ wb'.kind = wb.kind
    /\ (wb # Gone /\ wb' # Gone /\ res'.r.tag = "Ok"
        /\ res'.op \notin {"wb_where_", "wb_or_where"}) =>
          /\ wb'.expr = wb.expr /\ wb'.values = wb.values
    /\ (wb # Gone /\ wb' = Gone /\ res'.r.tag = "Ok") =>
          wh' = [expr |-> wb.expr, values |-> wb.values, kind |-> wb.kind]

\* C12: build() after successful WhereBuilder calls c1..cn with fragments
\* f1..fn yields f1.expr, then for each later call ` and ` (where_) or ` or `
\* (or_where) and fi.expr, with the values of f1..fn in call order and the
\* tag And unless WhereBuilder::kind set another
C12_WhereBuilderJoinsByMethod == [][WhereBuilderStep]_vars

C12_Witness ==
    /\ res = Done /\ wb = Gone /\ wh # Gone
    /\ wh.expr = <<"b", Q, SP, "or", SP, "c", Q>>
    /\ Len(wh.values) = 2
    /\ wh.kind = Or

\* the fields of a Select
Fields == {"table", "select", "join", "where_", "order_by", "group_by",
           "limit", "offset"}

\* the step changed no field of the statement but f
Only(f) == \A g \in Fields \ {f} : sel'[g] = sel[g]

\* the step appended fragment (tmpl, args) with the tag kind to the
\* predicates, or consumed the statement on a placeholder mismatch
Appended(tmpl, args, kind) ==
    IF CountQ(tmpl) = Len(args)
    THEN /\ sel'.where_ = sel.where_
              \o <<[expr |-> Fragment(tmpl, args).expr,
                    values |-> Fragment(tmpl, args).values, kind |-> kind]>>
         /\ Only("where_")
    ELSE sel' = Gone

\* what each operation does to the statement: the lists grow at the end by
\* the items passed, the other fields take the argument, and nothing else
\* changes
SelectStep ==
    /\ \A n \in TableNames : Table(n) =>
          sel'.table = Some(TableSimple(n)) /\ Only("table")
    /\ \A c \in JoinClauses : LeftJoin(c) =>
          /\ sel'.join = sel.join
                \o <<[kind |-> "left", join |-> [tag |-> "Simple", s |-> c]]>>
          /\ Only("join")
    /\ \A t \in SmallTmpls : \A args \in ArgTuples(AndArgs, 1) :
          /\ Where_(t, args) => Appended(t, args, "and")
          /\ WhereIf(TRUE, t, args) => Appended(t, args, "and")
          /\ WhereIf(FALSE, t, args) => sel' = sel
    /\ \A t \in OrTmpls : \A args \in ArgTuples(OrArgs, 1) :
          OrWhere(t, args) => Appended(t, args, "or")
    /\ \A c \in OrderCols : \A v \in InLists : WhereIn(c, v) =>
          /\ sel'.where_ = sel.where_
                \o <<[expr |-> c \o <<SP, "=", SP, "ANY(", Q, ")">>,
                      values |-> <<VecI64(v)>>, kind |-> "and"]>>
          /\ Only("where_")
    /\ \A c \in ColumnLists : SelectCols(c) =>
          sel'.select = sel.select \o c /\ Only("select")
    /\ \A g \in GroupBys : GroupBy(g) =>
          sel'.group_by = Some(g) /\ Only("group_by")
    /\ \A c \in OrderCols : \A d \in {Asc, Desc} : OrderBy(c, d) =>
          sel'.order_by = Some([col |-> c, dir |-> d]) /\ Only("order_by")
    /\ \A l \in Limits : (Limit(l) \/ Take(l)) =>
          sel'.limit = l /\ Only("limit")
    /\ \A o \in Offsets : (Offset(o) \/ Skip(o)) =>
          sel'.offset = o /\ Only("offset")

\* C13: every operation appends its items at the end of the column, join or
\* predicate list and leaves the earlier entries (tags included) as they
\* are, or sets its own field of table, group_by, order_by, limit, offset to
\* its argument (None clears limit and offset), and changes no other field
C13_OperationsAppendOrOverwrite == [][SelectStep]_vars

C13_Witness ==
    /\ sel # Gone
    /\ Len(sel.where_) = 2
    /\ sel.where_[1].kind = Or
    /\ sel.where_[2].kind = And
    /\ sel.limit = Some(7)
    /\ res = Done

\* the template with its k-th `?` from the left replaced by `$k`
RECURSIVE Dollar(_, _)
Dollar(q, k) ==
    IF q = <<>> THEN <<>>
    ELSE IF Head(q) = Q
    THEN <<"$" \o ToString(k)>> \o Dollar(Tail(q), k + 1)
    ELSE <<Head(q)>> \o Dollar(Tail(q), k)

\* C14: when into_builder completes, the statement text is the rendered
\* template with its k-th `?` replaced by `$k` and every literal segment
\* unchanged, and the bound values are the value list in the same order
C14_StatementNumbersEveryPlaceholder ==
    Rendered("into_builder") =>
        LET p == parts(out.of).val
        IN /\ out.r.val.sql = Dollar(p.q, 1)
           /\ out.r.val.binds = [k \in 1..Len(p.vals) |-> push_bind(p.vals[k])]

\* the statement without limit and offset
NoLimitOffset(s) == [s EXCEPT !.limit = None, !.offset = None]

\* the tokens of a text
Tokens(q) == {q[i] : i \in 1..Len(q)}

\* C15: a set limit renders as ` limit ?` with its value appended, a set
\* offset as ` offset ?` with its value appended, limit before offset and
\* both after every other clause and value, whatever the order of the calls;
\* an unset limit or offset leaves neither keyword nor value
C15_LimitThenOffsetLast ==
    Rendered("parts") =>
        LET s == out.of
            base == parts(NoLimitOffset(s)).val
            lq == IF s.limit = None THEN <<>> ELSE <<SP, "limit", SP, Q>>
            lv == IF s.limit = None THEN <<>> ELSE <<U64(s.limit.val)>>
            oq == IF s.offset = None THEN <<>> ELSE <<SP, "offset", SP, Q>>
            ov == IF s.offset = None THEN <<>> ELSE <<U64(s.offset.val)>>
        IN /\ out.r.val.q = base.q \o lq \o oq
           /\ out.r.val.vals = base.vals \o lv \o ov
           /\ Tokens(base.q) \cap {"limit", "offset"} = {}
           /\ \A i \in 1..Len(base.vals) : base.vals[i].t # "U64"

C15_Witness ==
    /\ Rendered("parts")
    /\ out.of.limit = Some(7) /\ out.of.offset = Some(9)
    /\ out.of.where_ # <<>>
    /\ Len(out.r.val.vals) = 3

\* the expressions in insertion order separated by `, `, written from the
\* last one back
RECURSIVE Separated(_)
Separated(cols) ==
    IF Len(cols) = 1 THEN cols[1]
    ELSE Separated(SubSeq(cols, 1, Len(cols) - 1)) \o <<",", SP>>
         \o cols[Len(cols)]

\* how a rendered statement starts
Starts ==
    Rendered("parts") =>
        LET c == out.of.select
            head == <<"select", SP>>
                    \o (IF c = <<>> THEN <<"*">> ELSE Separated(c))
                    \o <<SP, "from", SP>>
        IN SubSeq(out.r.val.q, 1, Len(head)) = head

\* what a select() call does to the column list
SelectAppends ==
    \A c \in ColumnLists : SelectCols(c) => sel'.select = sel.select \o c

\* C16: the columns are those of the select() calls in call order, and the
\* rendered statement starts with `select `, the m columns separated by `, `
\* without leading or trailing separator, or `*` when there is none, and
\* ` from `
C16_SelectColumnsInOrder == []Starts /\ [][SelectAppends]_vars

C16_Witness ==
    /\ Rendered("parts")
    /\ out.of.select = << <<"a">>, <<"b">>, <<"id">> >>

\* what a where_if call does, against where_ on the callback's value
WhereIfStep ==
    \A t \in SmallTmpls : \A args \in ArgTuples(AndArgs, 1) :
        /\ WhereIf(FALSE, t, args) =>
              /\ sel' = sel
              /\ res'.r = Returned
              /\ wh' = wh
        /\ WhereIf(TRUE, t, args) =>
              LET r == where_(sel, try_into_where(t, args))
              IN IF r.tag = "Ok"
                 THEN sel' = r.val /\ res'.r = Returned
                 ELSE sel' = Gone /\ res'.r = r

\* C17: where_if(false, callback) returns the statement unchanged with Ok,
\* without calling the callback or validating its template; where_if(true,
\* callback) returns what where_(callback()) returns, the error included
C17_WhereIfIsConditionalWhere == [][WhereIfStep]_vars

C17_Witness ==
    /\ res.op = "where_if(false)"
    /\ CountQ(res.tmpl) # res.n
    /\ res.r = Returned
    /\ sel # Gone

\* the sum of a sequence of numbers
RECURSIVE Sum(_)
Sum(ns) ==
    IF ns = <<>> THEN 0 ELSE Head(ns) + Sum(Tail(ns))

\* the sum of f(x[i]) over a sequence
SumOver(x, f(_)) ==
    Sum([i \in 1..Len(x) |-> f(x[i])])

\* the `?` a flat statement carries in its literal pieces: the table name,
\* the columns, the literal join clauses, the group-by text, the order-by
\* column, and the column of a where_in (its fragment has one `?` more than
\* values)
Stray(s) ==
    LET InJoin(j) == IF j.join.tag = "Simple" THEN CountQ(j.join.s) ELSE 0
        InPred(w) == CountQ(w.expr) - Len(w.values)
    IN (IF s.table = None THEN 0 ELSE CountQ(s.table.val.s))
       + SumOver(s.select, CountQ)
       + SumOver(s.join, InJoin)
       + SumOver(s.where_, InPred)
       + (IF s.group_by = None THEN 0 ELSE CountQ(s.group_by.val))
       + (IF s.order_by = None THEN 0 ELSE CountQ(s.order_by.val.col))

AssertionFailed == Panic("Query part count and placeholder count mismatch")

\* C19: literal pieces are not checked: an operation given a literal with
\* `?` succeeds, parts() returns a template with as many `?` more than
\* values as the literals carry, and into_builder() then fails its assertion
\* instead of completing
C19_StrayPlaceholdersAbortBinding ==
    /\ res.r.tag # "Ok" => res.op = "where_"
    /\ (out # NoOut /\ out.of.table # None) =>
          LET p == parts(out.of)
              k == Stray(out.of)
          IN /\ p.tag = "Ok"
             /\ CountQ(p.val.q) = Len(p.val.vals) + k
             /\ (out.call = "into_builder" /\ k >= 1) =>
                   out.r = AssertionFailed
             /\ (out.call = "into_builder" /\ k = 0) => out.r.tag = "Ok"

C19_Witness ==
    /\ out # NoOut /\ out.call = "into_builder"
    /\ out.r = AssertionFailed
    /\ Stray(out.of) = 2
    /\ out.of.where_ # <<>>
    /\ out.of.limit = Some(7)

Unwrapped == {Panic("unwrap on None"), Panic("assertion failed")}

\* C20: the unwraps and the closing assertion of the predicate conversions
\* and the unwrap of the join rendering never fail: a template accepted for
\* k arguments splits into exactly k + 1 segments, a predicate or join call
\* returns Ok or IncorrectPlaceholderCount, and a rendering never stops on
\* an unwrap
C20_GuardedUnwrapsNeverPanic ==
    /\ res.op \in ConvOps \cup {"left_join"} =>
          \/ res.r.tag = "Ok"
          \/ res.r = IncorrectPlaceholderCount(res.tmpl, res.n)
    /\ (res.op \in ConvOps /\ res.n >= 1
        /\ placeholder_count(res.tmpl, res.n).tag = "Ok") =>
          Len(SplitQ(res.tmpl)) = res.n + 1
    /\ out # NoOut =>
          /\ out.r \notin Unwrapped
          /\ \A i \in 1..Len(out.of.join) :
                out.of.join[i].join.tag = "SubQuery" =>
                    Len(SplitQ(out.of.join[i].join.s)) >= 1

C20_Witness ==
    /\ out # NoOut /\ out.call = "parts" /\ out.r.tag = "Ok"
    /\ \E i \in 1..Len(out.of.join) : out.of.join[i].join.tag = "SubQuery"
    /\ \E i \in 1..Len(out.of.where_) : Len(out.of.where_[i].values) = 3

\* the arguments with every fragment among them carrying the tag k
Retag(args, k) ==
    [i \in 1..Len(args) |->
        IF args[i].tag = "Where"
        THEN ArgWhere(Where_kind(args[i].w, k))
        ELSE args[i]]

\* a successful conversion gives the fragment, statement or builder it would
\* give had the fragments among its arguments carried any other tag, and the
\* fragment it makes carries And (Or when or_where pushes it)
TagsDiscarded ==
    \A k \in {And, Or} :
        LET t == res'.tmpl
            a == Retag(res'.args, k)
        IN /\ (res'.op = "try_into" /\ wh' # Gone) =>
                 /\ wh' = try_into_where(t, a).val
                 /\ wh'.kind = And
           /\ (res'.op = "where_" /\ sel' # Gone) =>
                 sel' = where_(sel, try_into_where(t, a)).val
           /\ (res'.op = "or_where" /\ sel' # Gone) =>
                 sel' = or_where(sel, try_into_where(t, a)).val
           /\ (res'.op = "wb_where_" /\ wb' # Gone) =>
                 /\ wb' = WhereBuilder_where_(wb, t, a).val
                 /\ wb'.kind = wb.kind
           /\ (res'.op = "wb_or_where" /\ wb' # Gone) =>
                 /\ wb' = WhereBuilder_or_where(wb, t, a).val
                 /\ wb'.kind = wb.kind

\* the predicate list keeps its entries, and an entry a call adds carries Or
\* exactly when the call is or_where
OrOnlyByOrWhere ==
    (sel # Gone /\ sel' # Gone) =>
        \A i \in 1..Len(sel'.where_) :
            IF i <= Len(sel.where_)
            THEN sel'.where_[i] = sel.where_[i]
            ELSE (sel'.where_[i].kind = Or) <=> (res'.op = "or_where")

\* a call that converts nothing (Where::kind and WhereBuilder::kind among
\* them) leaves the expression and the values of a fragment and of a builder
KindOnlyChangesTag ==
    res'.op = "call" =>
        /\ (wh # Gone /\ wh' # Gone) =>
              wh'.expr = wh.expr /\ wh'.values = wh.values
        /\ (wb # Gone /\ wb' # Gone) =>
              /\ wb'.expr = wb.expr /\ wb'.values = wb.values
              /\ wb'.count = wb.count

\* C21: a fragment made by a conversion carries And whatever the tags of the
\* fragments in its arguments, so that a nested tag (set with Where::kind or
\* WhereBuilder::kind) changes nothing of the statement; an entry of the
\* predicate list carries Or only if or_where added it; and changing a tag
\* changes neither the expression nor the values
C21_NestedTagsAreDiscarded ==
    [][TagsDiscarded /\ OrOnlyByOrWhere /\ KindOnlyChangesTag]_vars

C21_Witness ==
    /\ res.op = "where_" /\ res.r = Returned /\ sel # Gone
    /\ \E i \in 1..Len(res.args) :
          res.args[i].tag = "Where" /\ res.args[i].w.kind = Or
    /\ sel.where_[Len(sel.where_)].kind = And
    /\ Len(sel.where_) = 1

====
